---- MODULE Spec2Model ----
(***************************************************************************)
(* A model of Colorama.py: a script that prints styled lines to standard   *)
(* output, maps status categories to (color, label) pairs and waits for    *)
(* one line of input before it ends.                                       *)
(*                                                                         *)
(* A Python string is modelled as a sequence of parts: a style token       *)
(* ([k |-> "tok"]), a line break ([k |-> "nl"]) or a run of other text      *)
(* ([k |-> "txt"]).  Concatenation joins adjacent text runs, so two         *)
(* strings are equal exactly when their part sequences are equal.          *)
(***************************************************************************)
EXTENDS Integers, Sequences, FiniteSets, TLC

VARIABLES
    name,       \* __name__ of the module: "__main__" when run as a script
    stack,      \* the call stack: frames [fn, i, message, status_type]
    autoreset,  \* the styling mode set by init(); FALSE until init has run
    term,       \* the terminal's style state [st, fg, bg]
    out,        \* the lines written to standard output, oldest first
    calls,      \* the calls of print_status made, with the locals they chose
    stdin,      \* the lines waiting on standard input
    closed,     \* standard input has reached its end
    typed,      \* how many lines the operator has supplied in this run
    reads,      \* the lines the run has read, oldest first
    exc,        \* the exception that ended the run, "none" if none
    exitcode,   \* <<>> while the process runs, <<status>> once it has ended
    runs,       \* how many runs of the script have been started
    prev        \* the finished runs before this one: [out, reads] of each

vars == <<name, stack, autoreset, term, out, calls, stdin, closed, typed,
          reads, exc, exitcode, runs, prev>>

----------------------------------------------------------------------------
(* Bounds of the model. *)

MaxStdin == 2

MaxRuns == 2

MaxCalls == 2

----------------------------------------------------------------------------
(* Strings. *)

Tok(t) == <<[k |-> "tok", v |-> t]>>

Lit(s) == IF s = "" THEN <<>> ELSE <<[k |-> "txt", v |-> s]>>

NL == <<[k |-> "nl", v |-> "\n"]>>

\* a + b on strings
Plus(a, b) ==
    IF a # <<>> /\ b # <<>> /\ a[Len(a)].k = "txt" /\ b[1].k = "txt"
    THEN SubSeq(a, 1, Len(a) - 1)
            \o <<[k |-> "txt", v |-> a[Len(a)].v \o b[1].v]>>
            \o Tail(b)
    ELSE a \o b

\* The lines of a written string that ends in a line break.
RECURSIVE SplitLines(_)
SplitLines(s) ==
    IF s = <<>> THEN <<>>
    ELSE LET n == CHOOSE j \in 1..Len(s) :
                     /\ s[j].k = "nl"
                     /\ \A m \in 1..(j - 1) : s[m].k # "nl"
         IN  <<SubSeq(s, 1, n - 1)>> \o SplitLines(SubSeq(s, n + 1, Len(s)))

\* The names colorama exports.
Fore_BLACK == Tok("Fore.BLACK")
Fore_RED == Tok("Fore.RED")
Fore_GREEN == Tok("Fore.GREEN")
Fore_YELLOW == Tok("Fore.YELLOW")
Fore_BLUE == Tok("Fore.BLUE")
Fore_WHITE == Tok("Fore.WHITE")
Back_RED == Tok("Back.RED")
Back_GREEN == Tok("Back.GREEN")
Back_YELLOW == Tok("Back.YELLOW")
Back_BLUE == Tok("Back.BLUE")
Back_CYAN == Tok("Back.CYAN")
Style_BRIGHT == Tok("Style.BRIGHT")
Style_DIM == Tok("Style.DIM")
Style_RESET_ALL == Tok("Style.RESET_ALL")

ForeTokens == {"Fore.BLACK", "Fore.RED", "Fore.GREEN", "Fore.YELLOW",
               "Fore.BLUE", "Fore.WHITE"}
BackTokens == {"Back.RED", "Back.GREEN", "Back.YELLOW", "Back.BLUE",
               "Back.CYAN"}
StyleTokens == {"Style.BRIGHT", "Style.DIM"}

----------------------------------------------------------------------------
(* The terminal. *)

DefaultStyle == [st |-> "Style.NORMAL", fg |-> "Fore.RESET", bg |-> "Back.RESET"]

\* The style state after the terminal has received the string s.
RECURSIVE Render(_, _)
Render(style, s) ==
    IF s = <<>> THEN style
    ELSE LET p == Head(s)
             next == IF p.k # "tok" THEN style
                     ELSE IF p.v \in ForeTokens THEN [style EXCEPT !.fg = p.v]
                     ELSE IF p.v \in BackTokens THEN [style EXCEPT !.bg = p.v]
                     ELSE IF p.v \in StyleTokens THEN [style EXCEPT !.st = p.v]
                     ELSE DefaultStyle
         IN  Render(next, Tail(s))

\* The style state after one write of s to the wrapped stream: with autoreset
\* the stream returns the terminal to its default after every write.
AfterWrite(style, s) == IF autoreset THEN DefaultStyle ELSE Render(style, s)

FrameNames == [j \in 1..Len(stack) |-> stack[j].fn]

\* print(s): s and the line break are written; each line of the text is
\* recorded with the function that wrote it and the style it started in.
print(s) ==
    LET text == Plus(s, NL)
        ls == SplitLines(text)
    IN  /\ out' = out \o [j \in 1..Len(ls) |->
                            [stack |-> FrameNames, parts |-> ls[j], style0 |-> term]]
        /\ term' = AfterWrite(AfterWrite(term, s), NL)

----------------------------------------------------------------------------
(* The statements of the functions. *)

P(s) == [op |-> "print", arg |-> s, fn |-> "", message |-> <<>>, status_type |-> ""]

Call(f) == [op |-> "call", arg |-> <<>>, fn |-> f, message |-> <<>>, status_type |-> ""]

CallStatus(m, t) ==
    [op |-> "call", arg |-> <<>>, fn |-> "print_status", message |-> m, status_type |-> t]

Read == [op |-> "input", arg |-> <<>>, fn |-> "", message |-> <<>>, status_type |-> ""]

\* basic_colors_demo without its last styled line
basic_colors_demo_six ==
    << P(Lit("=== BASIC COLOR DEMO ===")),
       P(Plus(Fore_RED, Lit("This text is RED."))),
       P(Plus(Fore_GREEN, Lit("This text is GREEN."))),
       P(Plus(Fore_BLUE, Lit("This text is BLUE."))),
       P(Plus(Back_YELLOW, Lit("This has a YELLOW background."))),
       P(Plus(Back_CYAN, Lit("This has a CYAN background."))),
       P(Plus(Style_BRIGHT, Lit("This text is BRIGHT (bold)."))),
       P(Plus(Lit("Back to normal text after each line because of autoreset=True."), NL)) >>

\* basic_colors_demo with its header printed after the first styled line
basic_colors_demo_late_header ==
    << P(Plus(Fore_RED, Lit("This text is RED."))),
       P(Lit("=== BASIC COLOR DEMO ===")),
       P(Plus(Fore_GREEN, Lit("This text is GREEN."))),
       P(Plus(Fore_BLUE, Lit("This text is BLUE."))),
       P(Plus(Back_YELLOW, Lit("This has a YELLOW background."))),
       P(Plus(Back_CYAN, Lit("This has a CYAN background."))),
       P(Plus(Style_BRIGHT, Lit("This text is BRIGHT (bold)."))),
       P(Plus(Style_DIM, Lit("This text is DIM (less intense)."))),
       P(Plus(Lit("Back to normal text after each line because of autoreset=True."), NL)) >>

basic_colors_demo ==
    << P(Lit("=== BASIC COLOR DEMO ===")),
       P(Plus(Fore_RED, Lit("This text is RED."))),
       P(Plus(Fore_GREEN, Lit("This text is GREEN."))),
       P(Plus(Fore_BLUE, Lit("This text is BLUE."))),
       P(Plus(Back_YELLOW, Lit("This has a YELLOW background."))),
       P(Plus(Back_CYAN, Lit("This has a CYAN background."))),
       P(Plus(Style_BRIGHT, Lit("This text is BRIGHT (bold)."))),
       P(Plus(Style_DIM, Lit("This text is DIM (less intense)."))),
       P(Plus(Lit("Back to normal text after each line because of autoreset=True."), NL)) >>

\* combined_color_demo with the color before the style in its first line
combined_color_demo_fore_first ==
    << P(Lit("=== COMBINED COLOR DEMO ===")),
       P(Plus(Plus(Plus(Fore_WHITE, Style_BRIGHT), Back_RED),
              Lit("Bright WHITE text on RED background"))),
       P(Plus(Plus(Plus(Style_BRIGHT, Fore_BLACK), Back_GREEN),
              Lit("Bright BLACK text on GREEN background"))),
       P(Plus(Plus(Plus(Style_DIM, Fore_YELLOW), Back_BLUE),
              Lit("Dim YELLOW text on BLUE background"))),
       P(Plus(Lit("Normal text again after combined styles."), NL)) >>

combined_color_demo ==
    << P(Lit("=== COMBINED COLOR DEMO ===")),
       P(Plus(Plus(Plus(Style_BRIGHT, Fore_WHITE), Back_RED),
              Lit("Bright WHITE text on RED background"))),
       P(Plus(Plus(Plus(Style_BRIGHT, Fore_BLACK), Back_GREEN),
              Lit("Bright BLACK text on GREEN background"))),
       P(Plus(Plus(Plus(Style_DIM, Fore_YELLOW), Back_BLUE),
              Lit("Dim YELLOW text on BLUE background"))),
       P(Plus(Lit("Normal text again after combined styles."), NL)) >>

status_demo ==
    << P(Lit("=== STATUS MESSAGE DEMO ===")),
       CallStatus(Lit("Program started."), "info"),
       CallStatus(Lit("Data loaded successfully."), "success"),
       CallStatus(Lit("Disk space is getting low."), "warning"),
       CallStatus(Lit("Could not connect to the server."), "error"),
       CallStatus(Lit("This is a custom type."), "custom"),
       P(<<>>) >>

\* main with the combined demo called before the basic one
main_combined_first ==
    << P(Lit("Colorama Demo Starting...")),
       P(Lit("If you are running this in IDLE and don't see colors,")),
       P(Lit("try running this script from Command Prompt or PowerShell instead.")),
       P(<<>>),
       Call("combined_color_demo"),
       Call("basic_colors_demo"),
       Call("status_demo"),
       P(Lit("Demo complete. Press Enter to exit.")),
       Read >>

\* main with the read before the closing prompt
main_read_first ==
    << P(Lit("Colorama Demo Starting...")),
       P(Lit("If you are running this in IDLE and don't see colors,")),
       P(Lit("try running this script from Command Prompt or PowerShell instead.")),
       P(<<>>),
       Call("basic_colors_demo"),
       Call("combined_color_demo"),
       Call("status_demo"),
       Read,
       P(Lit("Demo complete. Press Enter to exit.")) >>

main ==
    << P(Lit("Colorama Demo Starting...")),
       P(Lit("If you are running this in IDLE and don't see colors,")),
       P(Lit("try running this script from Command Prompt or PowerShell instead.")),
       P(<<>>),
       Call("basic_colors_demo"),
       Call("combined_color_demo"),
       Call("status_demo"),
       P(Lit("Demo complete. Press Enter to exit.")),
       Read >>

\* SelectStatus with the colors of "warning" and "error" exchanged
SelectStatusSwapped(status_type) ==
    IF status_type = "info" THEN [color |-> Fore_BLUE, label |-> "[INFO]   "]
    ELSE IF status_type = "success" THEN [color |-> Fore_GREEN, label |-> "[SUCCESS]"]
    ELSE IF status_type = "warning" THEN [color |-> Fore_RED, label |-> "[WARNING]"]
    ELSE IF status_type = "error" THEN [color |-> Fore_YELLOW, label |-> "[ERROR]  "]
    ELSE [color |-> Fore_WHITE, label |-> "[OTHER]  "]

\* SelectStatus comparing without regard to case
SelectStatusFolded(status_type) ==
    IF status_type \in {"info", "INFO"} THEN [color |-> Fore_BLUE, label |-> "[INFO]   "]
    ELSE IF status_type = "success" THEN [color |-> Fore_GREEN, label |-> "[SUCCESS]"]
    ELSE IF status_type = "warning" THEN [color |-> Fore_YELLOW, label |-> "[WARNING]"]
    ELSE IF status_type \in {"error", "Error"} THEN [color |-> Fore_RED, label |-> "[ERROR]  "]
    ELSE [color |-> Fore_WHITE, label |-> "[OTHER]  "]

\* The (color, label) pair print_status chooses for a status_type.
SelectStatus(status_type) ==
    IF status_type = "info" THEN [color |-> Fore_BLUE, label |-> "[INFO]   "]
    ELSE IF status_type = "success" THEN [color |-> Fore_GREEN, label |-> "[SUCCESS]"]
    ELSE IF status_type = "warning" THEN [color |-> Fore_YELLOW, label |-> "[WARNING]"]
    ELSE IF status_type = "error" THEN [color |-> Fore_RED, label |-> "[ERROR]  "]
    ELSE [color |-> Fore_WHITE, label |-> "[OTHER]  "]

\* StatusLine with the label before the tokens
StatusLineLabelFirst(color, label, message) ==
    Plus(Plus(Plus(Plus(Lit(label), Style_BRIGHT), color), Lit(" ")), message)

\* The string print_status prints.
StatusLine(color, label, message) ==
    Plus(Plus(Plus(Plus(Style_BRIGHT, color), Lit(label)), Lit(" ")), message)

----------------------------------------------------------------------------
(* The call stack. *)

Frame(f, m, t) == [fn |-> f, i |-> 1, message |-> m, status_type |-> t]

Top == stack[Len(stack)]

Running(f) == stack # <<>> /\ Top.fn = f

Body(f) ==
    IF f = "main" THEN main
    ELSE IF f = "basic_colors_demo" THEN basic_colors_demo
    ELSE IF f = "combined_color_demo" THEN combined_color_demo
    ELSE status_demo

Advanced == [stack EXCEPT ![Len(stack)].i = @ + 1]

Popped == SubSeq(stack, 1, Len(stack) - 1)

\* The running function f runs its next statement, a print or a call, or
\* returns at the end of its body.
Step(f) ==
    /\ IF Top.i > Len(Body(f))
       THEN /\ stack' = Popped
            /\ UNCHANGED <<out, term>>
       ELSE LET s == Body(f)[Top.i]
            IN  /\ s.op # "input"
                /\ IF s.op = "print"
                   THEN /\ print(s.arg)
                        /\ stack' = Advanced
                   ELSE /\ stack' = Advanced \o <<Frame(s.fn, s.message, s.status_type)>>
                        /\ UNCHANGED <<out, term>>
    /\ UNCHANGED <<name, autoreset, calls, stdin, closed, typed, reads, exc,
                   exitcode, runs, prev>>

----------------------------------------------------------------------------
(* What the operator and a caller may supply. *)

InputLines == {"", "exit"}

Messages ==
    { Lit("Program started."),
      Lit("This is a custom type."),
      <<>>,
      Plus(Plus(Lit("first"), NL), Lit("second")) }

StatusTypes ==
    {"info", "success", "warning", "error", "custom", "", "INFO", "Error", "other"}

----------------------------------------------------------------------------
(* The script. *)

ScriptStart ==
    /\ stack = <<Frame("module", <<>>, "")>>
    /\ autoreset = FALSE
    /\ out = <<>>
    /\ calls = <<>>
    /\ stdin = <<>>
    /\ closed = FALSE
    /\ typed = 0
    /\ reads = <<>>
    /\ exc = "none"
    /\ exitcode = <<>>

Init ==
    /\ name = "__main__"
    /\ ScriptStart
    /\ term = DefaultStyle
    /\ runs = 1
    /\ prev = <<>>

\* init() without autoreset
InitColoramaPlain ==
    /\ Running("module")
    /\ Top.i = 1
    /\ autoreset' = FALSE
    /\ stack' = Advanced
    /\ UNCHANGED <<name, term, out, calls, stdin, closed, typed, reads, exc,
                   exitcode, runs, prev>>

\* init(autoreset=True), at module level
InitColorama ==
    /\ Running("module")
    /\ Top.i = 1
    /\ autoreset' = TRUE
    /\ stack' = Advanced
    /\ UNCHANGED <<name, term, out, calls, stdin, closed, typed, reads, exc,
                   exitcode, runs, prev>>

\* if __name__ == "__main__": main()
CallMain ==
    /\ Running("module")
    /\ Top.i = 2
    /\ name = "__main__"
    /\ stack' = Advanced \o <<Frame("main", <<>>, "")>>
    /\ UNCHANGED <<name, autoreset, term, out, calls, stdin, closed, typed,
                   reads, exc, exitcode, runs, prev>>

\* The module was imported: main is not called, and the importer goes on.
Imported ==
    /\ Running("module")
    /\ Top.i = 2
    /\ name # "__main__"
    /\ stack' = <<>>
    /\ UNCHANGED <<name, autoreset, term, out, calls, stdin, closed, typed,
                   reads, exc, exitcode, runs, prev>>

Main ==
    /\ Running("main")
    /\ Step("main")

BasicColorsDemo ==
    /\ Running("basic_colors_demo")
    /\ Step("basic_colors_demo")

CombinedColorDemo ==
    /\ Running("combined_color_demo")
    /\ Step("combined_color_demo")

StatusDemo ==
    /\ Running("status_demo")
    /\ Step("status_demo")

\* print_status(message, status_type)
PrintStatus ==
    /\ Running("print_status")
    /\ LET sel == SelectStatus(Top.status_type)
       IN  /\ print(StatusLine(sel.color, sel.label, Top.message))
           /\ calls' = Append(calls,
                  [message |-> Top.message, status_type |-> Top.status_type,
                   color |-> sel.color, label |-> sel.label,
                   first |-> Len(out) + 1, last |-> Len(out')])
    /\ stack' = Popped
    /\ UNCHANGED <<name, autoreset, stdin, closed, typed, reads, exc, exitcode,
                   runs, prev>>

AtInput ==
    /\ Running("main")
    /\ Top.i <= Len(main)
    /\ main[Top.i].op = "input"

\* input() with the line read written back to standard output
InputEcho ==
    /\ AtInput
    /\ stdin # <<>>
    /\ stdin' = Tail(stdin)
    /\ reads' = Append(reads, Head(stdin))
    /\ print(Lit(Head(stdin)))
    /\ stack' = Advanced
    /\ UNCHANGED <<name, autoreset, calls, closed, typed, exc, exitcode, runs,
                   prev>>

\* input(): a line is read and dropped
Input ==
    /\ AtInput
    /\ stdin # <<>>
    /\ stdin' = Tail(stdin)
    /\ reads' = Append(reads, Head(stdin))
    /\ stack' = Advanced
    /\ UNCHANGED <<name, autoreset, term, out, calls, closed, typed, exc,
                   exitcode, runs, prev>>

\* input() at the end of standard input: EOFError, which nothing catches
InputEOF ==
    /\ AtInput
    /\ stdin = <<>>
    /\ closed
    /\ exc' = "EOFError"
    /\ stack' = <<>>
    /\ exitcode' = <<1>>
    /\ UNCHANGED <<name, autoreset, term, out, calls, stdin, closed, typed,
                   reads, runs, prev>>

\* The end of the module, after main has returned.
Exit ==
    /\ Running("module")
    /\ Top.i = 3
    /\ stack' = <<>>
    /\ exitcode' = <<0>>
    /\ UNCHANGED <<name, autoreset, term, out, calls, stdin, closed, typed,
                   reads, exc, runs, prev>>

Program ==
    \/ InitColorama
    \/ CallMain
    \/ Main
    \/ BasicColorsDemo
    \/ CombinedColorDemo
    \/ StatusDemo
    \/ PrintStatus
    \/ Input
    \/ InputEOF
    \/ Exit

----------------------------------------------------------------------------
(* The operator. *)

TypeLine ==
    /\ exitcode = <<>>
    /\ ~closed
    /\ typed < MaxStdin
    /\ \E l \in InputLines : stdin' = Append(stdin, l)
    /\ typed' = typed + 1
    /\ UNCHANGED <<name, stack, autoreset, term, out, calls, closed, reads,
                   exc, exitcode, runs, prev>>

CloseStdin ==
    /\ exitcode = <<>>
    /\ ~closed
    /\ closed' = TRUE
    /\ UNCHANGED <<name, stack, autoreset, term, out, calls, stdin, typed,
                   reads, exc, exitcode, runs, prev>>

\* The script is run again, in a new process.
Rerun ==
    /\ exitcode # <<>>
    /\ runs < MaxRuns
    /\ runs' = runs + 1
    /\ prev' = Append(prev, [out |-> out, reads |-> reads])
    /\ stack' = <<Frame("module", <<>>, "")>>
    /\ autoreset' = FALSE
    /\ out' = <<>>
    /\ calls' = <<>>
    /\ stdin' = <<>>
    /\ closed' = FALSE
    /\ typed' = 0
    /\ reads' = <<>>
    /\ exc' = "none"
    /\ exitcode' = <<>>
    /\ UNCHANGED <<name, term>>

Next ==
    \/ InitColorama
    \/ CallMain
    \/ Main
    \/ BasicColorsDemo
    \/ CombinedColorDemo
    \/ StatusDemo
    \/ PrintStatus
    \/ Input
    \/ InputEOF
    \/ Exit
    \/ TypeLine
    \/ CloseStdin
    \/ Rerun

Spec == Init /\ [][Next]_vars

\* One run of the script and its operator.
NextRun ==
    \/ InitColorama
    \/ CallMain
    \/ Main
    \/ BasicColorsDemo
    \/ CombinedColorDemo
    \/ StatusDemo
    \/ PrintStatus
    \/ Input
    \/ InputEOF
    \/ Exit
    \/ TypeLine
    \/ CloseStdin

\* The interpreter always runs the next statement of a process able to run.
FairSpec == Init /\ [][NextRun]_vars /\ WF_vars(Program)

----------------------------------------------------------------------------
(* print_status called by an importer of the module. *)

InitImport ==
    /\ name = "Colorama"
    /\ ScriptStart
    /\ term = DefaultStyle
    /\ runs = 1
    /\ prev = <<>>

CallPrintStatus ==
    /\ name # "__main__"
    /\ stack = <<>>
    /\ Len(calls) < MaxCalls
    /\ \E m \in Messages, t \in StatusTypes :
          stack' = <<Frame("print_status", m, t)>>
    /\ UNCHANGED <<name, autoreset, term, out, calls, stdin, closed, typed,
                   reads, exc, exitcode, runs, prev>>

NextImport ==
    \/ InitColorama
    \/ Imported
    \/ CallPrintStatus
    \/ PrintStatus

SpecImport == InitImport /\ [][NextImport]_vars

----------------------------------------------------------------------------
(* What the properties below read off a state. *)

\* The demo function a line was written under: the frame below main's, or
\* the function itself when it was called directly.
Phase(l) == IF Len(l.stack) >= 3 THEN l.stack[3] ELSE l.stack[Len(l.stack)]

PhaseOf(j) == Phase(out[j])

LinesOf(f) == SelectSeq(out, LAMBDA l : Phase(l) = f)

OnStack(f) == \E j \in 1..Len(stack) : stack[j].fn = f

\* f has run and returned
Returned(f) == LinesOf(f) # <<>> /\ ~OnStack(f)

TokensOf(parts) == SelectSeq(parts, LAMBDA p : p.k = "tok")

TokenNames(parts) == [j \in 1..Len(TokensOf(parts)) |-> TokensOf(parts)[j].v]

Unstyled(parts) == TokensOf(parts) = <<>>

HasBreak(s) == \E j \in 1..Len(s) : s[j].k = "nl"

Breaks(s) == Cardinality({j \in 1..Len(s) : s[j].k = "nl"})

IsPrefix(a, b) == Len(a) <= Len(b) /\ \A j \in 1..Len(a) : a[j] = b[j]

Repeat(x, n) == [j \in 1..n |-> x]

KnownTypes == {"info", "success", "warning", "error"}

\* The table of status categories: category -> (color, label).
TableColor(t) ==
    CASE t = "info" -> "Fore.BLUE"
      [] t = "success" -> "Fore.GREEN"
      [] t = "warning" -> "Fore.YELLOW"
      [] t = "error" -> "Fore.RED"
      [] OTHER -> "Fore.WHITE"

TableLabel(t) ==
    CASE t = "info" -> "[INFO]   "
      [] t = "success" -> "[SUCCESS]"
      [] t = "warning" -> "[WARNING]"
      [] t = "error" -> "[ERROR]  "
      [] OTHER -> "[OTHER]  "

DemoCalls ==
    << <<"Program started.", "info">>,
       <<"Data loaded successfully.", "success">>,
       <<"Disk space is getting low.", "warning">>,
       <<"Could not connect to the server.", "error">>,
       <<"This is a custom type.", "custom">> >>

----------------------------------------------------------------------------
(* C1 *)

\* C1: each call of print_status made by status_demo is the next of the five
\* fixed (message, category) pairs, in their order, and chooses the color and
\* the label of its category's row of the table ("info" blue "[INFO]   ",
\* "success" green "[SUCCESS]", "warning" yellow "[WARNING]", "error" red
\* "[ERROR]  ", any other white "[OTHER]  "); the line it writes carries the
\* bright token and then that color.
C1_StatusTable ==
    /\ Len(calls) <= Len(DemoCalls)
    /\ \A j \in 1..Len(calls) :
          LET c == calls[j] IN
          /\ c.message = Lit(DemoCalls[j][1])
          /\ c.status_type = DemoCalls[j][2]
          /\ c.color = Tok(TableColor(c.status_type))
          /\ c.label = TableLabel(c.status_type)
          /\ TokenNames(out[c.first].parts) = <<"Style.BRIGHT", TableColor(c.status_type)>>

C1_Witness ==
    /\ Len(calls) = 5
    /\ Returned("status_demo")

----------------------------------------------------------------------------
(* C2 *)

\* C2: a call of print_status whose category is none of "info", "success",
\* "warning", "error" chooses the label "[OTHER]  " and the white color,
\* raises nothing and writes its line.
C2_DefaultBranch ==
    /\ exc = "none"
    /\ \A j \in 1..Len(calls) :
          LET c == calls[j] IN
          c.status_type \notin KnownTypes =>
             /\ c.label = "[OTHER]  "
             /\ c.color = Fore_WHITE
             /\ c.first <= c.last
             /\ c.last <= Len(out)
             /\ TokenNames(out[c.first].parts) = <<"Style.BRIGHT", "Fore.WHITE">>

C2_Witness ==
    /\ Len(calls) = 2
    /\ calls[1].status_type = "INFO"
    /\ calls[2].status_type = ""
    /\ stack = <<>>

----------------------------------------------------------------------------
(* C3 *)

\* C3 as amended: a call of print_status writes the bright token, the chosen
\* color token, the chosen label, ONE space and the message, and a line break:
\* one line of exactly that form when the message holds no line break, and one
\* line more for every line break the message holds.
C3_LineForm ==
    \A j \in 1..Len(calls) :
       LET c == calls[j] IN
       /\ c.last - c.first = Breaks(c.message)
       /\ ~HasBreak(c.message) =>
             out[c.first].parts =
                <<[k |-> "tok", v |-> "Style.BRIGHT"], c.color[1]>>
                   \o Plus(Lit(c.label \o " "), c.message)
       /\ TokenNames(out[c.first].parts) = <<"Style.BRIGHT", c.color[1].v>>

C3_Witness ==
    /\ Len(calls) = 2
    /\ calls[1].message = Lit("Program started.")
    /\ calls[1].status_type = "success"
    /\ HasBreak(calls[2].message)
    /\ stack = <<>>

\* C3 as stated: every call writes exactly one line, of the form bright,
\* color, label, two spaces, message.
C3_Original ==
    \A j \in 1..Len(calls) :
       LET c == calls[j] IN
       /\ c.last = c.first
       /\ out[c.first].parts =
             <<[k |-> "tok", v |-> "Style.BRIGHT"], c.color[1]>>
                \o Plus(Lit(c.label \o "  "), c.message)

----------------------------------------------------------------------------
(* C4 *)

Phases == [j \in 1..Len(out) |-> PhaseOf(j)]

\* The phases of the lines of a whole run, as the code writes them.
RunPhases ==
    Repeat("main", 4) \o Repeat("basic_colors_demo", 10)
       \o Repeat("combined_color_demo", 6) \o Repeat("status_demo", 7)
       \o Repeat("main", 1)

\* The run has ended normally.
Completed == exitcode = <<0>>

\* C4 as amended: a run writes, in this order and with nothing interleaved,
\* the banner (3 lines and a blank line), the basic demo (10 lines), the
\* combined demo (6 lines), the status demo's header, 5 status lines and a
\* blank line, and the closing prompt; a run that has read its line ends with
\* exit status 0, and has then written all of these.
C4_RunOrder ==
    /\ IsPrefix(Phases, RunPhases)
    /\ out # <<>> => out[1].parts = Lit("Colorama Demo Starting...")
    /\ (exitcode # <<>> /\ reads # <<>>) => Completed
    /\ Completed =>
          /\ Phases = RunPhases
          /\ out[Len(out)].parts = Lit("Demo complete. Press Enter to exit.")
          /\ out[Len(out) - 1].parts = <<>>
          /\ Len(calls) = 5
          /\ Len(reads) = 1

C4_Witness ==
    /\ Completed
    /\ reads = <<"exit">>

\* C4 as stated: in a completed run the basic demo has written 7 lines, the
\* combined demo 4 and the status demo 7, in that order between the banner
\* and the closing prompt.
C4_Original ==
    Completed =>
       /\ Len(LinesOf("basic_colors_demo")) = 7
       /\ Len(LinesOf("combined_color_demo")) = 4
       /\ Len(LinesOf("status_demo")) = 7
       /\ \A a, b \in 1..Len(out) :
             /\ (PhaseOf(a) = "basic_colors_demo" /\ PhaseOf(b) = "combined_color_demo") => a < b
             /\ (PhaseOf(a) = "combined_color_demo" /\ PhaseOf(b) = "status_demo") => a < b

----------------------------------------------------------------------------
(* C5 *)

BasicTokens ==
    <<"Fore.RED", "Fore.GREEN", "Fore.BLUE", "Back.YELLOW", "Back.CYAN",
      "Style.BRIGHT", "Style.DIM">>

\* C5 as amended: basic_colors_demo writes its header, then SEVEN styled
\* lines, each one styling token (red, green, blue text, yellow and cyan
\* background, bright, dim, in this order) and a text, then one unstyled
\* confirmation line and the blank line its trailing line break makes: 10
\* lines.
C5_BasicDemo ==
    LET ls == LinesOf("basic_colors_demo") IN
    /\ \A j \in 1..Len(ls) :
          /\ j \in 2..8 =>
                /\ Len(ls[j].parts) = 2
                /\ ls[j].parts[2].k = "txt"
                /\ TokenNames(ls[j].parts) = <<BasicTokens[j - 1]>>
          /\ j \notin 2..8 => Unstyled(ls[j].parts)
          /\ j = 9 => ls[j].parts # <<>>
          /\ j = 10 => ls[j].parts = <<>>
    /\ Len(ls) <= 10
    /\ Returned("basic_colors_demo") => Len(ls) = 10

C5_Witness ==
    /\ Returned("basic_colors_demo")
    /\ OnStack("main")

\* C5 as stated: basic_colors_demo writes exactly 7 lines, 6 styled lines of
\* one token each and then 1 unstyled line.
C5_Original ==
    Returned("basic_colors_demo") =>
       LET ls == LinesOf("basic_colors_demo") IN
       /\ Len(ls) = 7
       /\ \A j \in 1..6 : Len(TokensOf(ls[j].parts)) = 1
       /\ Unstyled(ls[7].parts)

----------------------------------------------------------------------------
(* C6 *)

CombinedTokens ==
    << <<"Style.BRIGHT", "Fore.WHITE", "Back.RED">>,
       <<"Style.BRIGHT", "Fore.BLACK", "Back.GREEN">>,
       <<"Style.DIM", "Fore.YELLOW", "Back.BLUE">> >>

\* C6 as amended: combined_color_demo writes its header, then 3 styled lines,
\* each one brightness token, one foreground token, one background token and
\* the text, in that order, then one plain confirmation line and the blank
\* line its trailing line break makes: 6 lines.
C6_CombinedDemo ==
    LET ls == LinesOf("combined_color_demo") IN
    /\ \A j \in 1..Len(ls) :
          /\ j \in 2..4 =>
                /\ Len(ls[j].parts) = 4
                /\ ls[j].parts[1].v \in StyleTokens
                /\ ls[j].parts[2].v \in ForeTokens
                /\ ls[j].parts[3].v \in BackTokens
                /\ ls[j].parts[4].k = "txt"
                /\ TokenNames(ls[j].parts) = CombinedTokens[j - 1]
          /\ j \notin 2..4 => Unstyled(ls[j].parts)
          /\ j = 5 => ls[j].parts # <<>>
          /\ j = 6 => ls[j].parts = <<>>
    /\ Len(ls) <= 6
    /\ Returned("combined_color_demo") => Len(ls) = 6

C6_Witness ==
    /\ Returned("combined_color_demo")
    /\ OnStack("main")

\* C6 as stated: combined_color_demo writes exactly 4 lines, 3 styled lines
\* and then 1 plain line.
C6_Original ==
    Returned("combined_color_demo") =>
       LET ls == LinesOf("combined_color_demo") IN
       /\ Len(ls) = 4
       /\ \A j \in 1..3 : Len(TokensOf(ls[j].parts)) = 3
       /\ Unstyled(ls[4].parts)

----------------------------------------------------------------------------
(* C7 *)

\* C7: the styling mode is set, with autoreset, before any line is written;
\* every write starts with the terminal in its default style, so no token of
\* one line is in effect for the next; and no line holds a reset token.
C7_AutoReset ==
    /\ out # <<>> => autoreset
    /\ term = DefaultStyle
    /\ \A j \in 1..Len(out) :
          /\ out[j].style0 = DefaultStyle
          /\ \A m \in 1..Len(out[j].parts) : out[j].parts[m] # Style_RESET_ALL[1]

C7_Witness ==
    \E j \in 1..Len(out) :
       /\ j < Len(out)
       /\ TokenNames(out[j].parts) = <<"Style.DIM", "Fore.YELLOW", "Back.BLUE">>
       /\ Unstyled(out[j + 1].parts)

----------------------------------------------------------------------------
(* C8 *)

\* C8: a finished run has written to standard output exactly what every
\* finished run before it wrote, whatever either run read.
C8_Deterministic ==
    exitcode # <<>> => \A j \in 1..Len(prev) : prev[j].out = out

C8_Witness ==
    /\ exitcode # <<>>
    /\ Len(prev) = 1
    /\ prev[1].reads = <<"">>
    /\ reads = <<"exit">>

----------------------------------------------------------------------------
(* C9 *)

AllWritten ==
    /\ Returned("basic_colors_demo")
    /\ Returned("combined_color_demo")
    /\ Returned("status_demo")
    /\ out[Len(out)].parts = Lit("Demo complete. Press Enter to exit.")

\* C9 as amended: a run reads at most once, and only after the closing prompt
\* and every other line have been written; nothing is written after the read;
\* while standard input is OPEN and holds no line the run stays at the read
\* and does not end; at the END of standard input with no line the read
\* raises EOFError and the run ends with exit status 1, having read nothing;
\* and once a line is there the run reads it once and ends with exit status 0.
C9_ReadLast ==
    /\ [](Len(reads) <= 1)
    /\ [][reads' # reads /\ reads' # <<>> => AllWritten /\ out' = out]_vars
    /\ [][reads # <<>> /\ reads' # <<>> => out' = out]_vars
    /\ [][AtInput /\ stdin = <<>> /\ ~closed => stack' = stack /\ exitcode' = exitcode]_vars
    /\ [](exitcode = <<1>> => exc = "EOFError" /\ reads = <<>> /\ AllWritten)
    /\ [](exitcode = <<0>> => exc = "none" /\ Len(reads) = 1)
    /\ (exitcode = <<>> /\ stdin # <<>>) ~> (exitcode = <<0>> /\ Len(reads) = 1)

C9_Witness ==
    /\ exitcode = <<0>>
    /\ Len(reads) = 1
    /\ stdin # <<>>

\* C9 as stated: the run does not end for as long as no line of input has
\* been available, so a run that has ended has read its one line.
C9_Original == exitcode # <<>> => Len(reads) = 1

----------------------------------------------------------------------------
(* C10 *)

DemoHeaders ==
    [basic_colors_demo |-> "=== BASIC COLOR DEMO ===",
     combined_color_demo |-> "=== COMBINED COLOR DEMO ===",
     status_demo |-> "=== STATUS MESSAGE DEMO ==="]

\* C10: the first line each demo function writes is its own unstyled
\* "=== ... ===" header, written by the function itself, and the lines of a
\* demo function are contiguous in the output.
C10_Headers ==
    /\ \A f \in DOMAIN DemoHeaders :
          LinesOf(f) # <<>> =>
             /\ LinesOf(f)[1].parts = Lit(DemoHeaders[f])
             /\ LinesOf(f)[1].stack[Len(LinesOf(f)[1].stack)] = f
    /\ \A a, b, c \in 1..Len(out) :
          (a < b /\ b < c /\ PhaseOf(a) = PhaseOf(c) /\ PhaseOf(a) \in DOMAIN DemoHeaders)
             => PhaseOf(b) = PhaseOf(a)

C10_Witness ==
    /\ Returned("basic_colors_demo")
    /\ Returned("combined_color_demo")
    /\ Returned("status_demo")
    /\ Completed

====
